---- MODULE Spec2Model ----
(***************************************************************************)
(* A model of BaseWebComponent (depinore2/wclibrary).                       *)
(*                                                                         *)
(* Three revisions of the class are in the repository:                     *)
(*   revision 1  src/unnamed/part_000        (sanitize, DOM-based escape)  *)
(*   revision 2  src/src/BaseWebComponent.ts (he.encode, buildHtmlString)  *)
(*   revision 3  src/src/constants.ts        (adds the global event bus    *)
(*                                            adapter and the form factor  *)
(*                                            listener)                    *)
(*                                                                         *)
(* The window event target, the media query lists and the shadow DOM are   *)
(* modelled by what the code asks of them: addEventListener does not add   *)
(* a (type, callback) pair twice, a {once: true} listener is removed       *)
(* before its callback runs, an async function suspends at its await.      *)
(***************************************************************************)
EXTENDS Integers, Sequences, FiniteSets, TLC

\* ------------------------------------------------------------------ bounds
MaxRegs == 2           \* calls of the three window registration functions
MaxPending == 2        \* wrapper invocations suspended at their await, at once
MaxFFRegs == 1         \* addFormFactorListener calls in total
MaxRenders == 1        \* calls of a template function

\* minViewportWidths
MinMobile == 0
MinTablet == 1024
MinDesktop == 1280

Comps == {1, 2}                     \* component instances sharing the window
Names == {"a"}                      \* event names
AllNames == Names \cup {"b"}        \* with a second name, for runs about dispatch
Handlers == {1, 2}                  \* identities of caller-supplied handlers
Payloads == {0, 1}                  \* event details
FormFactors == {"mobile", "tablet", "desktop"}
Widths == {0, 1023, 1024, 1279, 1280}   \* viewport widths, in px
MaxId == MaxRegs + 3 * MaxFFRegs
Ids == 0..MaxId

VARIABLES
    listeners,               \* window's event listener list, in registration order
    disconnectionCallbacks,  \* per component: id -> absent | undefined | teardown
    callbackCounter,         \* per component
    issued,                  \* history, per component: the ids returned or stored so far
    temps,                   \* promises returned by addTemporaryGlobalEventListener
    onces,                   \* promises returned by addOneTimeGlobalEventListener
    pending,                 \* wrapper invocations suspended at `await eventHandler(e)`
    delivered,               \* history: the listener calls the last step's dispatch made
    invokedRemove,           \* history: teardown calls made by removeGlobalEventListener
    invokedDisconnect,       \* history: teardown calls made by disconnectedCallback
    width,                   \* the viewport width the media queries are evaluated on
    mqlListeners,            \* per component and media query list: its change listeners
    formFactorListeners,     \* history: the callbacks given to addFormFactorListener
    revision,                \* which revision of the class is running
    dom,                     \* the shadow root: style node, #content, the element #x in it
    tpl,                     \* history: the last call of a template function
    renderError              \* history: the last direct call of render raised an error

busVars == <<listeners, disconnectionCallbacks, callbackCounter, issued, temps, onces,
             pending, delivered, invokedRemove, invokedDisconnect>>

ffVars == <<width, mqlListeners, formFactorListeners>>

tplVars == <<revision, dom, tpl, renderError>>

vars == <<busVars, ffVars, tplVars>>

\* ------------------------------------------------------------ value shapes
NoFn == [kind |-> "none", id |-> 0]
UserFn(h) == [kind |-> "user", id |-> h]
WrapperFn(k) == [kind |-> "wrapper", id |-> k]
OnceFn(k) == [kind |-> "once", id |-> k]

Absent == [kind |-> "absent", name |-> "", fn |-> NoFn]
Undefined == [kind |-> "undefined", name |-> "", fn |-> NoFn]
WindowTeardown(name, fn) == [kind |-> "window", name |-> name, fn |-> fn]
MqlTeardown(size, k) == [kind |-> "mql", name |-> size, fn |-> [kind |-> "change", id |-> k]]

\* `if (callback)` / `callback && callback()`: the entry holds a function
IsFunction(entry) == entry.kind \in {"window", "mql"}

\* registrations made so far: handles issued, temporary and one-time listeners
Registrations == callbackCounter[1] + callbackCounter[2] + Len(temps) + Len(onces)

\* ---------------------------------------------------- the window's listeners
HasListener(ls, name, fn) ==
    \E i \in 1..Len(ls) : ls[i].name = name /\ ls[i].fn = fn

\* window.addEventListener(name, fn, {once}): a listener with the same type
\* and callback is not added a second time
WindowAdd(ls, name, fn, once, owner) ==
    IF HasListener(ls, name, fn)
    THEN ls
    ELSE Append(ls, [name |-> name, fn |-> fn, once |-> once, owner |-> owner])

\* window.removeEventListener(name, fn)
WindowRemove(ls, name, fn) ==
    SelectSeq(ls, LAMBDA l : ~(l.name = name /\ l.fn = fn))

\* the caller-supplied predicate of addTemporaryGlobalEventListener: the
\* payload says whether this is the event the caller waits for
Until(detail) == detail = 1

\* history counters count 0, 1, more than once
Count(n) == IF n >= 2 THEN n ELSE n + 1

\* ------------------------------------------------- strings and the shadow DOM
\* A string is a sequence of chunks; a chunk is a piece of text or markup that
\* the HTML parser reads the same way whatever surrounds it.  '' is <<>>.
Container == "<div id=x></div>"
Literals == {<<>>, <<"a">>, <<Container>>, <<"<script></script>">>}
Values == {<<>>, <<"a">>, <<"< ">>, <<"<b></b>">>, <<"<script></script>">>}
Selectors == {<<>>, <<"#x">>, <<"#y">>}
\* what a subclass passes to render: fragments, also with two elements #x
Contents == Literals \cup Values \cup {<<"a", Container>>, <<Container, Container>>}
\* and as the selector, also a string that is no selector
NoSelector == <<"<b></b>">>
InitialContents == {<<>>, <<Container>>}
Revisions == {1, 2, 3}
ExprCounts == {0, 1}                \* interpolated values of a template literal

RECURSIVE MapChunks(_, _)
MapChunks(f, str) ==
    IF str = <<>> THEN <<>>
    ELSE LET c == f[Head(str)] IN
         (IF c = "" THEN <<>> ELSE <<c>>) \o MapChunks(f, Tail(str))

Chunks == {"a", "< ", "& ", "<b></b>", "<script></script>", Container,
           "&lt; ", "&amp; ", "&lt;b&gt;&lt;/b&gt;", "&lt;script&gt;&lt;/script&gt;",
           "&#x3C; ", "&#x26; ", "&#x3C;b&#x3E;&#x3C;/b&#x3E;",
           "&#x3C;script&#x3E;&#x3C;/script&#x3E;",
           "&amp;lt; ", "&amp;amp; "}

\* purify.sanitize(content, {}): parse, drop what is not allowed, serialize
SanitizeChunk ==
    [c \in Chunks |->
        CASE c = "<script></script>" -> ""
          [] c = "< " -> "&lt; "
          [] c = "& " -> "&amp; "
          [] c = "&#x3C; " -> "&lt; "
          [] c = "&#x26; " -> "&amp; "
          [] c = "&#x3C;b&#x3E;&#x3C;/b&#x3E;" -> "&lt;b&gt;&lt;/b&gt;"
          [] c = "&#x3C;script&#x3E;&#x3C;/script&#x3E;" -> "&lt;script&gt;&lt;/script&gt;"
          [] OTHER -> c]

Sanitize(str) == MapChunks(SanitizeChunk, str)

\* he.encode(exp): the markup-significant characters as hexadecimal references
EncodeChunk ==
    [c \in Chunks |->
        CASE c = "< " -> "&#x3C; "
          [] c = "& " -> "&#x26; "
          [] c = "<b></b>" -> "&#x3C;b&#x3E;&#x3C;/b&#x3E;"
          [] c = "<script></script>" -> "&#x3C;script&#x3E;&#x3C;/script&#x3E;"
          [] OTHER -> c]

Encode(str) == MapChunks(EncodeChunk, str)

\* cleanerElement.innerText = content; cleanerElement.innerHTML: the text
\* serialized as HTML
TextAsHtmlChunk ==
    [c \in Chunks |->
        CASE c = "< " -> "&lt; "
          [] c = "& " -> "&amp; "
          [] c = "<b></b>" -> "&lt;b&gt;&lt;/b&gt;"
          [] c = "<script></script>" -> "&lt;script&gt;&lt;/script&gt;"
          [] c = "&lt; " -> "&amp;lt; "
          [] c = "&amp; " -> "&amp;amp; "
          [] OTHER -> c]

TextAsHtml(str) == MapChunks(TextAsHtmlChunk, str)

HasContainer(str) == \E i \in 1..Len(str) : str[i] = Container

\* the constructor: a style node and <div id="content"> with initialContent
InitDom(initialContent) ==
    /\ dom = [style |-> "styles", content |-> initialContent, x |-> <<>>]
    /\ tpl = [calls |-> 0, container |-> <<>>, escapeHtml |-> FALSE,
              strings |-> <<>>, expressions |-> <<>>,
              threw |-> FALSE, assembled |-> <<>>,
              rendered |-> FALSE, content |-> <<>>, selector |-> <<>>,
              sanitized |-> <<>>, placed |-> <<>>]
    /\ renderError = FALSE

\* ------------------------------------------------------------------- Init
InitCommon ==
    /\ listeners = <<>>
    /\ disconnectionCallbacks = [c \in Comps |-> [id \in Ids |-> Absent]]
    /\ callbackCounter = [c \in Comps |-> 0]
    /\ issued = [c \in Comps |-> <<>>]
    /\ temps = <<>>
    /\ onces = <<>>
    /\ pending = <<>>
    /\ delivered = <<>>
    /\ invokedRemove = [c \in Comps |-> [id \in Ids |-> 0]]
    /\ invokedDisconnect = [c \in Comps |-> [id \in Ids |-> 0]]
    /\ mqlListeners = [c \in Comps |-> [size \in FormFactors |-> {}]]
    /\ formFactorListeners = <<>>

Init ==
    /\ InitCommon
    /\ InitDom(<<>>)
    /\ width = MinMobile
    /\ revision = 3

\* ------------------------------------------- the global event bus adapter
\* the teardown closure stored by addGlobalEventListener:
\* () => window.removeEventListener(eventName, eventHandler)
CallTeardown(ls, entry) ==
    IF entry.kind = "window" THEN WindowRemove(ls, entry.name, entry.fn) ELSE ls

\* the teardown closure stored by addFormFactorListener:
\* () => this.<size>MediaQueryList.removeEventListener('change', handle<Size>)
CallMqlTeardown(mq, entry) ==
    IF entry.kind = "mql" THEN [mq EXCEPT ![entry.name] = @ \ {entry.fn.id}] ELSE mq

\* no call of a form factor callback is made in this step
NoCalls == [k \in 1..Len(formFactorListeners) |->
               [formFactorListeners[k] EXCEPT !.calls = <<>>]]

\* the ids removeGlobalEventListener is called with: every id issued so far
\* and one that was not issued (yet)
RemovableIds(c) == 0..callbackCounter[c]

\* removeGlobalEventListener without its last line: the entry is kept
RemoveWithoutInvalidating(c, id) ==
    LET callback == disconnectionCallbacks[c][id] IN
    /\ listeners' = IF IsFunction(callback)
                    THEN CallTeardown(listeners, callback)
                    ELSE listeners
    /\ invokedRemove' = IF IsFunction(callback)
                        THEN [invokedRemove EXCEPT ![c][id] = Count(@)]
                        ELSE invokedRemove
    /\ mqlListeners' = IF IsFunction(callback)
                       THEN [mqlListeners EXCEPT ![c] = CallMqlTeardown(@, callback)]
                       ELSE mqlListeners
    /\ formFactorListeners' = NoCalls
    /\ delivered' = <<>>
    /\ UNCHANGED <<disconnectionCallbacks, callbackCounter, issued, temps, onces, pending,
                   invokedDisconnect, width, tplVars>>

RemoveGlobalEventListener(c, id) ==
    LET callback == disconnectionCallbacks[c][id] IN
    /\ delivered' = <<>>
    /\ UNCHANGED <<callbackCounter, issued, temps, onces, pending, invokedDisconnect, width,
                   tplVars>>
    /\ disconnectionCallbacks' = [disconnectionCallbacks EXCEPT ![c][id] = Undefined]
    /\ listeners' = IF IsFunction(callback)
                    THEN CallTeardown(listeners, callback)
                    ELSE listeners
    /\ invokedRemove' = IF IsFunction(callback)
                        THEN [invokedRemove EXCEPT ![c][id] = Count(@)]
                        ELSE invokedRemove
    /\ mqlListeners' = IF IsFunction(callback)
                       THEN [mqlListeners EXCEPT ![c] = CallMqlTeardown(@, callback)]
                       ELSE mqlListeners
    /\ formFactorListeners' = NoCalls

\* addGlobalEventListener with callbackCounter instead of callbackCounter++
AddGlobalWithoutIncrement(c, name, h) ==
    LET disconnectId == callbackCounter[c] IN
    /\ Registrations < MaxRegs
    /\ listeners' = WindowAdd(listeners, name, UserFn(h), FALSE, c)
    /\ issued' = [issued EXCEPT ![c] = Append(@, disconnectId)]
    /\ disconnectionCallbacks' =
           [disconnectionCallbacks EXCEPT ![c][disconnectId] = WindowTeardown(name, UserFn(h))]
    /\ delivered' = <<>>
    /\ UNCHANGED <<callbackCounter, temps, onces, pending, invokedRemove, invokedDisconnect,
                   ffVars, tplVars>>

AddGlobalEventListener(c, name, h) ==
    LET disconnectId == callbackCounter[c] IN
    /\ Registrations < MaxRegs
    /\ listeners' = WindowAdd(listeners, name, UserFn(h), FALSE, c)
    /\ callbackCounter' = [callbackCounter EXCEPT ![c] = @ + 1]
    /\ issued' = [issued EXCEPT ![c] = Append(@, disconnectId)]
    /\ disconnectionCallbacks' =
           [disconnectionCallbacks EXCEPT ![c][disconnectId] = WindowTeardown(name, UserFn(h))]
    /\ delivered' = <<>>
    /\ UNCHANGED <<temps, onces, pending, invokedRemove, invokedDisconnect, ffVars, tplVars>>

\* registers `wrapper`, a fresh async function, and returns a new promise;
\* no entry of disconnectionCallbacks is made
AddTemporaryGlobalEventListener(c, name) ==
    LET k == Len(temps) + 1 IN
    /\ Registrations < MaxRegs
    /\ listeners' = WindowAdd(listeners, name, WrapperFn(k), FALSE, c)
    /\ temps' = Append(temps, [name |-> name, resolved |-> FALSE, resolveCalls |-> 0,
                               untilTrue |-> FALSE])
    /\ delivered' = <<>>
    /\ UNCHANGED <<disconnectionCallbacks, callbackCounter, issued, onces, pending,
                   invokedRemove, invokedDisconnect, ffVars, tplVars>>

\* addOneTimeGlobalEventListener without {once: true}
AddOneTimeWithoutOnce(c, name) ==
    LET k == Len(onces) + 1 IN
    /\ Registrations < MaxRegs
    /\ listeners' = WindowAdd(listeners, name, OnceFn(k), FALSE, c)
    /\ onces' = Append(onces, [name |-> name,
                               resolved |-> FALSE, value |-> 0, resolveCalls |-> 0,
                               fires |-> 0, first |-> 0])
    /\ delivered' = <<>>
    /\ UNCHANGED <<disconnectionCallbacks, callbackCounter, issued, temps, pending,
                   invokedRemove, invokedDisconnect, ffVars, tplVars>>

\* registers a fresh listener with {once: true} and returns a new promise;
\* no entry of disconnectionCallbacks is made
AddOneTimeGlobalEventListener(c, name) ==
    LET k == Len(onces) + 1 IN
    /\ Registrations < MaxRegs
    /\ listeners' = WindowAdd(listeners, name, OnceFn(k), TRUE, c)
    /\ onces' = Append(onces, [name |-> name,
                               resolved |-> FALSE, value |-> 0, resolveCalls |-> 0,
                               fires |-> 0, first |-> 0])
    /\ delivered' = <<>>
    /\ UNCHANGED <<disconnectionCallbacks, callbackCounter, issued, temps, pending,
                   invokedRemove, invokedDisconnect, ffVars, tplVars>>

\* a dispatch that does not look at the event's type
MatchingAnyName(ls, name) == ls

\* window.dispatchEvent: the listeners of `name`, in registration order
Matching(ls, name) == SelectSeq(ls, LAMBDA l : l.name = name)

\* a {once: true} listener is removed when the event is dispatched to it
AfterDispatch(ls, name) == SelectSeq(ls, LAMBDA l : ~(l.name = name /\ l.once))

\* every wrapper the event is dispatched to calls eventHandler(e) and then
\* suspends at its await
Suspended(ls, name, detail) ==
    LET ws == SelectSeq(ls, LAMBDA l : l.name = name /\ l.fn.kind = "wrapper")
    IN [i \in 1..Len(ws) |-> [tmp |-> ws[i].fn.id, detail |-> detail]]

\* promise resolution: the first resolve settles the promise, later ones do not
Resolve(p, v) ==
    [p EXCEPT !.resolved = TRUE,
              !.value = IF p.resolved THEN @ ELSE v,
              !.resolveCalls = Count(@)]

\* the calls one dispatch makes: every target is called with the event
Delivered(targets, detail) ==
    [i \in 1..Len(targets) |->
        [name |-> targets[i].name, fn |-> targets[i].fn, detail |-> detail]]

\* (fireGlobalEvent reads nothing of the instance it is called on)
FireGlobalEvent(name, detail) ==
    LET targets == Matching(listeners, name)
        susp == Suspended(listeners, name, detail)
    IN
    /\ Len(pending) + Len(susp) <= MaxPending
    /\ listeners' = AfterDispatch(listeners, name)
    /\ pending' = pending \o susp
    /\ delivered' = Delivered(targets, detail)
    /\ onces' = [k \in 1..Len(onces) |->
                    LET o == IF HasListener(targets, name, OnceFn(k))
                             THEN Resolve(onces[k], detail)
                             ELSE onces[k]
                    IN IF o.name = name
                       THEN [o EXCEPT !.fires = Count(@),
                                      !.first = IF o.fires = 0 THEN detail ELSE @]
                       ELSE o]
    /\ UNCHANGED <<disconnectionCallbacks, callbackCounter, issued, temps,
                   invokedRemove, invokedDisconnect, ffVars, tplVars>>

RemoveAt(s, i) == [j \in 1..(Len(s) - 1) |-> IF j < i THEN s[j] ELSE s[j + 1]]

\* the wrapper without its window.removeEventListener
ResumeWithoutRemoving(i, handlerOk) ==
    LET k == pending[i].tmp
        t == temps[k]
        stop == handlerOk /\ Until(pending[i].detail)
    IN
    /\ pending' = RemoveAt(pending, i)
    /\ temps' = [temps EXCEPT ![k] =
                    IF stop
                    THEN [t EXCEPT !.resolved = TRUE, !.resolveCalls = Count(@),
                                   !.untilTrue = TRUE]
                    ELSE t]
    /\ delivered' = <<>>
    /\ UNCHANGED <<listeners, disconnectionCallbacks, callbackCounter, issued, onces,
                   invokedRemove, invokedDisconnect, ffVars, tplVars>>

\* the rest of `wrapper` after `await eventHandler(e)`: the handler's promise
\* settles at a time the handler decides; a rejection ends the wrapper
ResumeWrapper(i, handlerOk) ==
    LET k == pending[i].tmp
        t == temps[k]
        stop == handlerOk /\ Until(pending[i].detail)
    IN
    /\ pending' = RemoveAt(pending, i)
    /\ listeners' = IF stop THEN WindowRemove(listeners, t.name, WrapperFn(k))
                    ELSE listeners
    /\ temps' = [temps EXCEPT ![k] =
                    IF stop
                    THEN [t EXCEPT !.resolved = TRUE, !.resolveCalls = Count(@),
                                   !.untilTrue = TRUE]
                    ELSE t]
    /\ delivered' = <<>>
    /\ UNCHANGED <<disconnectionCallbacks, callbackCounter, issued, onces,
                   invokedRemove, invokedDisconnect, ffVars, tplVars>>

\* Object.keys(this.disconnectionCallbacks): the ids that were ever assigned
Keys(c) == {id \in Ids : disconnectionCallbacks[c][id].kind # "absent"}

DisconnectedCallback(c) ==
    LET callbacks == {id \in Keys(c) : IsFunction(disconnectionCallbacks[c][id])} IN
    /\ listeners' = SelectSeq(listeners, LAMBDA l :
                        ~\E id \in callbacks :
                            /\ disconnectionCallbacks[c][id].kind = "window"
                            /\ disconnectionCallbacks[c][id].name = l.name
                            /\ disconnectionCallbacks[c][id].fn = l.fn)
    /\ invokedDisconnect' = [invokedDisconnect EXCEPT ![c] =
                                [id \in Ids |-> IF id \in callbacks THEN Count(@[id]) ELSE @[id]]]
    /\ mqlListeners' = [mqlListeners EXCEPT ![c] =
                           [size \in FormFactors |->
                               @[size] \ {disconnectionCallbacks[c][id].fn.id :
                                             id \in {i \in callbacks :
                                                 /\ disconnectionCallbacks[c][i].kind = "mql"
                                                 /\ disconnectionCallbacks[c][i].name = size}}]]
    /\ formFactorListeners' = NoCalls
    /\ delivered' = <<>>
    /\ UNCHANGED <<disconnectionCallbacks, callbackCounter, issued, temps, onces, pending,
                   invokedRemove, width, tplVars>>

\* ------------------------------------------------- the form factor listener
\* window.matchMedia(`(max-width: ${minViewportWidths.tablet - 1}px)`) etc.
\* (max-width: ${minViewportWidths.tablet}px), the "- 1" forgotten
MobileMatchesUpToTablet(w) == w <= MinTablet

MobileMatches(w) == w <= MinTablet - 1
TabletMatches(w) == w >= MinTablet /\ w <= MinDesktop - 1
DesktopMatches(w) == w >= MinDesktop

Matches(size, w) ==
    CASE size = "mobile" -> MobileMatches(w)
      [] size = "tablet" -> TabletMatches(w)
      [] size = "desktop" -> DesktopMatches(w)

\* the initial call without its last branch
InitialCallWithoutDesktop(w) ==
    IF MobileMatches(w) THEN <<"mobile">>
    ELSE IF TabletMatches(w) THEN <<"tablet">>
    ELSE <<>>

\* "fire off an initial call": the sizes cb is called with at registration
InitialCall(w) ==
    IF MobileMatches(w) THEN <<"mobile">>
    ELSE IF TabletMatches(w) THEN <<"tablet">>
    ELSE IF DesktopMatches(w) THEN <<"desktop">>
    ELSE <<>>

LastOf(calls, last) == IF calls = <<>> THEN last ELSE calls[Len(calls)]

\* the three teardowns stored under one id: callbackCounter++ only once
AddFormFactorListenerOneId(c) ==
    LET k == Len(formFactorListeners) + 1
        id == callbackCounter[c]
        calls == InitialCall(width)
    IN
    /\ Len(formFactorListeners) < MaxFFRegs
    /\ mqlListeners' = [mqlListeners EXCEPT ![c] = [size \in FormFactors |-> @[size] \cup {k}]]
    /\ disconnectionCallbacks' =
           [disconnectionCallbacks EXCEPT ![c][id] = MqlTeardown("desktop", k)]
    /\ callbackCounter' = [callbackCounter EXCEPT ![c] = @ + 1]
    /\ issued' = [issued EXCEPT ![c] = Append(@, id)]
    /\ formFactorListeners' =
           Append(NoCalls, [owner |-> c, calls |-> calls, initial |-> calls,
                            last |-> LastOf(calls, "none")])
    /\ UNCHANGED <<listeners, temps, onces, pending, delivered, invokedRemove,
                   invokedDisconnect, width, tplVars>>

AddFormFactorListener(c) ==
    LET k == Len(formFactorListeners) + 1
        id == callbackCounter[c]
        calls == InitialCall(width)
    IN
    /\ Len(formFactorListeners) < MaxFFRegs
    /\ mqlListeners' = [mqlListeners EXCEPT ![c] = [size \in FormFactors |-> @[size] \cup {k}]]
    /\ disconnectionCallbacks' =
           [disconnectionCallbacks EXCEPT ![c][id] = MqlTeardown("mobile", k),
                                          ![c][id + 1] = MqlTeardown("tablet", k),
                                          ![c][id + 2] = MqlTeardown("desktop", k)]
    /\ callbackCounter' = [callbackCounter EXCEPT ![c] = @ + 3]
    /\ issued' = [issued EXCEPT ![c] = @ \o <<id, id + 1, id + 2>>]
    /\ formFactorListeners' =
           Append(NoCalls, [owner |-> c, calls |-> calls, initial |-> calls,
                            last |-> LastOf(calls, "none")])
    /\ UNCHANGED <<listeners, temps, onces, pending, delivered, invokedRemove,
                   invokedDisconnect, width, tplVars>>

\* (e) => cb(size), without the test of e.matches
HandlerCallIgnoringMatches(k, size, w) ==
    LET c == formFactorListeners[k].owner
        changed == Matches(size, w) # Matches(size, width)
    IN IF changed /\ k \in mqlListeners[c][size]
       THEN <<size>>
       ELSE <<>>

\* createFormFactorHandler(size): (e) => e.matches && cb(size), as a listener
\* of the `change` event of the media query list of `size`
HandlerCall(k, size, w) ==
    LET c == formFactorListeners[k].owner
        changed == Matches(size, w) # Matches(size, width)
    IN IF changed /\ k \in mqlListeners[c][size] /\ Matches(size, w)
       THEN <<size>>
       ELSE <<>>

\* the viewport is resized: every media query list whose result changes
\* dispatches `change` to its listeners
Resize(w) ==
    /\ width' = w
    /\ formFactorListeners' =
           [k \in 1..Len(formFactorListeners) |->
               LET calls == HandlerCall(k, "mobile", w) \o HandlerCall(k, "tablet", w)
                                \o HandlerCall(k, "desktop", w)
               IN [formFactorListeners[k] EXCEPT
                      !.calls = calls, !.last = LastOf(calls, @)]]
    /\ UNCHANGED <<busVars, mqlListeners, tplVars>>

\* --------------------------------------------------------- HTML rendering
\* render where a selector that matches nothing falls back to the content root
RenderOrContentRoot(d, content, selector) ==
    IF selector \in Selectors /\ ~(selector = <<"#x">> /\ HasContainer(d.content))
    THEN [threw |-> FALSE, dom |-> [d EXCEPT !.content = content, !.x = <<>>]]
    ELSE IF selector \notin Selectors
    THEN [threw |-> TRUE, dom |-> d]
    ELSE [threw |-> FALSE, dom |-> [d EXCEPT !.x = content]]

\* render(content, selector): the shadow root after the call, or an exception
\* (querySelector throws on a string that is no selector)
Render(d, content, selector) ==
    IF selector = <<>>
    THEN [threw |-> FALSE, dom |-> [d EXCEPT !.content = content, !.x = <<>>]]
    ELSE IF selector \notin Selectors
    THEN [threw |-> TRUE, dom |-> d]
    ELSE IF selector = <<"#x">> /\ HasContainer(d.content)
    THEN [threw |-> FALSE, dom |-> [d EXCEPT !.x = content]]
    ELSE [threw |-> FALSE, dom |-> d]

\* a subclass calls this.render(content, selector) itself
RenderCall(content, selector) ==
    LET out == Render(dom, content, selector) IN
    /\ dom' = out.dom
    /\ renderError' = out.threw
    /\ UNCHANGED <<busVars, ffVars, revision, tpl>>

\* interpolatedSections[i], sanitized; past the last expression it is
\* `undefined`, which the sanitizer turns into ''
SanitizedSection(interpolatedSections, i) ==
    IF i <= Len(interpolatedSections) THEN Sanitize(interpolatedSections[i]) ELSE <<>>

RECURSIVE BuildFrom(_, _, _)
BuildFrom(constantSections, interpolatedSections, i) ==
    IF i > Len(constantSections) THEN <<>>
    ELSE constantSections[i] \o SanitizedSection(interpolatedSections, i)
             \o BuildFrom(constantSections, interpolatedSections, i + 1)

BuildHtmlString(constantSections, interpolatedSections) ==
    BuildFrom(constantSections, interpolatedSections, 1)

HtmlDoNotEscape(strings, expressions) == BuildHtmlString(strings, expressions)

\* expressions.map(exp => exp ? he.encode(exp) : exp)
EncodedExpressions(expressions) ==
    [i \in 1..Len(expressions) |->
        IF expressions[i] # <<>> THEN Encode(expressions[i]) ELSE expressions[i]]

Html(strings, expressions) == BuildHtmlString(strings, EncodedExpressions(expressions))

\* the interpolated sections buildHtmlString gives to this.sanitize, and what
\* it appends to the output for each
BuildSanitized(escapeHtml, expressions) ==
    IF escapeHtml THEN EncodedExpressions(expressions) ELSE expressions

BuildPlaced(escapeHtml, expressions) ==
    [i \in 1..Len(expressions) |-> Sanitize(BuildSanitized(escapeHtml, expressions)[i])]

\* a method called with or without its receiver: both read this.buildHtmlString
CallMethod(escapeHtml, hasThis, strings, expressions) ==
    IF ~hasThis
    THEN [threw |-> TRUE, value |-> <<>>]
    ELSE [threw |-> FALSE,
          value |-> IF escapeHtml THEN Html(strings, expressions)
                    ELSE HtmlDoNotEscape(strings, expressions)]

\* revision 1: the loop of the template function; `cleaner` is the innerHTML
\* of cleanerElement
RECURSIVE TemplateLoop(_, _, _, _, _)
TemplateLoop(strings, expressions, escapeHtml, i, cleaner) ==
    IF i > Len(strings) THEN <<>>
    ELSE LET content == SanitizedSection(expressions, i)
             cleaned == IF escapeHtml THEN TextAsHtml(content) ELSE cleaner
         IN strings[i] \o cleaned
                \o TemplateLoop(strings, expressions, escapeHtml, i + 1, cleaned)

\* revision 1: what the loop appends to the output for each expression; with
\* escapeHtml false cleanerElement is never written and its innerHTML stays ''
LoopPlaced(escapeHtml, expressions) ==
    [i \in 1..Len(expressions) |->
        IF escapeHtml THEN TextAsHtml(Sanitize(expressions[i])) ELSE <<>>]

\* what the template function of each revision builds and passes to render:
\*   1: self.render(output, containerElement)
\*   2: self.render(containerElement, (escapeHtml ? self.html : self.htmlDoNotEscape)(...))
\*   3: self.render(escapeHtml ? self.html(...) : self.htmlDoNotEscape(...), containerElement)
TemplateCall(rev, containerElement, escapeHtml, strings, expressions) ==
    CASE rev = 1 ->
           LET output == TemplateLoop(strings, expressions, escapeHtml, 1, <<>>) IN
           [threw |-> FALSE, assembled |-> output,
            content |-> output, selector |-> containerElement,
            sanitized |-> expressions, placed |-> LoopPlaced(escapeHtml, expressions)]
      [] rev = 2 ->
           LET built == CallMethod(escapeHtml, FALSE, strings, expressions) IN
           [threw |-> built.threw, assembled |-> built.value,
            content |-> containerElement, selector |-> built.value,
            sanitized |-> <<>>, placed |-> <<>>]
      [] rev = 3 ->
           LET built == CallMethod(escapeHtml, TRUE, strings, expressions) IN
           [threw |-> built.threw, assembled |-> built.value,
            content |-> built.value, selector |-> containerElement,
            sanitized |-> BuildSanitized(escapeHtml, expressions),
            placed |-> BuildPlaced(escapeHtml, expressions)]

Template(containerElement, escapeHtml, strings, expressions) ==
    LET call == TemplateCall(revision, containerElement, escapeHtml, strings, expressions)
        out == IF call.threw THEN [threw |-> TRUE, dom |-> dom]
               ELSE Render(dom, call.content, call.selector)
    IN
    /\ tpl.calls < MaxRenders
    /\ dom' = out.dom
    /\ tpl' = [calls |-> tpl.calls + 1, container |-> containerElement, escapeHtml |-> escapeHtml,
               strings |-> strings, expressions |-> expressions,
               threw |-> out.threw, assembled |-> call.assembled,
               rendered |-> ~call.threw,
               content |-> IF call.threw THEN <<>> ELSE call.content,
               selector |-> IF call.threw THEN <<>> ELSE call.selector,
               sanitized |-> call.sanitized, placed |-> call.placed]
    /\ UNCHANGED <<busVars, ffVars, revision, renderError>>

Next ==
    \/ \E c \in Comps : \E id \in RemovableIds(c) : RemoveGlobalEventListener(c, id)
    \/ \E c \in Comps, name \in Names, h \in Handlers : AddGlobalEventListener(c, name, h)
    \/ \E c \in Comps, name \in Names : AddTemporaryGlobalEventListener(c, name)
    \/ \E c \in Comps, name \in Names : AddOneTimeGlobalEventListener(c, name)
    \/ \E name \in Names, d \in Payloads : FireGlobalEvent(name, d)
    \/ \E i \in 1..Len(pending), ok \in BOOLEAN : ResumeWrapper(i, ok)
    \/ \E c \in Comps : DisconnectedCallback(c)

Spec == Init /\ [][Next]_vars

\* the event bus with listeners under two event names
NextDispatch ==
    \/ \E c \in Comps, name \in AllNames, h \in Handlers : AddGlobalEventListener(c, name, h)
    \/ \E c \in Comps, name \in AllNames : AddTemporaryGlobalEventListener(c, name)
    \/ \E c \in Comps, name \in AllNames : AddOneTimeGlobalEventListener(c, name)
    \/ \E name \in AllNames, d \in Payloads : FireGlobalEvent(name, d)
    \/ \E i \in 1..Len(pending), ok \in BOOLEAN : ResumeWrapper(i, ok)

SpecDispatch == Init /\ [][NextDispatch]_vars

InitFF ==
    /\ InitCommon
    /\ InitDom(<<>>)
    /\ width \in Widths
    /\ revision = 3

NextFF ==
    \/ \E c \in Comps : AddFormFactorListener(c)
    \/ \E w \in Widths : Resize(w)
    \/ \E c \in Comps : \E id \in RemovableIds(c) : RemoveGlobalEventListener(c, id)

SpecFF == InitFF /\ [][NextFF]_vars

\* the handles of one component map: both kinds of registration, and removal
NextHandles ==
    \/ \E c \in Comps, name \in Names, h \in Handlers : AddGlobalEventListener(c, name, h)
    \/ \E c \in Comps : AddFormFactorListener(c)
    \/ \E c \in Comps : \E id \in RemovableIds(c) : RemoveGlobalEventListener(c, id)

SpecHandles == Init /\ [][NextHandles]_vars

\* form factor listeners and component teardown
NextFFTeardown ==
    \/ \E c \in Comps : AddFormFactorListener(c)
    \/ \E w \in Widths : Resize(w)
    \/ \E c \in Comps : DisconnectedCallback(c)

SpecFFTeardown == InitFF /\ [][NextFFTeardown]_vars

InitTpl ==
    /\ InitCommon
    /\ \E initialContent \in InitialContents : InitDom(initialContent)
    /\ width = MinMobile
    /\ revision \in Revisions

NextTpl ==
    \E n \in ExprCounts :
        \E containerElement \in Selectors, escapeHtml \in BOOLEAN,
           strings \in [1..(n + 1) -> Literals], expressions \in [1..n -> Values] :
            Template(containerElement, escapeHtml, strings, expressions)

SpecTpl == InitTpl /\ [][NextTpl]_vars

\* direct calls of render
NextRender ==
    \E content \in Contents, selector \in Selectors \cup {NoSelector} :
        RenderCall(content, selector)

SpecRender == InitTpl /\ [][NextRender]_vars

\* ------------------------------------------------------------------ claims
Outstanding(c, id) == IsFunction(disconnectionCallbacks[c][id])

\* C1: after disconnectedCallback of a component returns, no listener that
\* the component registered through addGlobalEventListener,
\* addTemporaryGlobalEventListener or addOneTimeGlobalEventListener is still
\* attached to the window.
C1_NoListenerAfterTeardown ==
    [][\A c \in Comps :
          DisconnectedCallback(c) =>
              \A i \in 1..Len(listeners') : listeners'[i].owner # c]_vars

\* C2: a run of disconnectedCallback invokes the teardown of every handle that
\* is outstanding exactly once over the life of the component, and invokes no
\* teardown of a handle that was invalidated before; a later run invokes
\* nothing a second time.
C2_TeardownExactlyOnce ==
    [][\A c \in Comps :
          DisconnectedCallback(c) =>
              \A id \in Ids :
                  invokedDisconnect'[c][id] =
                      IF Outstanding(c, id) THEN 1 ELSE invokedDisconnect[c][id]]_vars

\* C3: removeGlobalEventListener(id) on an outstanding handle invokes its
\* teardown, for the first and only time, and invalidates the handle; on an
\* invalidated or never issued id it invokes no teardown and leaves the
\* window's listeners unchanged; no other handle changes in either case.
C3_RemoveIdempotent ==
    [][\A c \in Comps : \A id \in RemovableIds(c) :
          RemoveGlobalEventListener(c, id) =>
              /\ ~Outstanding(c, id)'
              /\ IF Outstanding(c, id)
                 THEN /\ invokedRemove'[c][id] = 1
                      /\ ~HasListener(listeners', disconnectionCallbacks[c][id].name,
                                      disconnectionCallbacks[c][id].fn)
                 ELSE /\ invokedRemove' = invokedRemove
                      /\ invokedDisconnect' = invokedDisconnect
                      /\ listeners' = listeners
              /\ \A c2 \in Comps, id2 \in Ids :
                     <<c2, id2>> # <<c, id>> =>
                         disconnectionCallbacks'[c2][id2] = disconnectionCallbacks[c2][id2]]_vars

\* a handle was removed, and an id that was not issued was removed as well
C3_Witness ==
    \E c \in Comps, id \in Ids, never \in Ids :
        /\ id < callbackCounter[c]
        /\ disconnectionCallbacks[c][id] = Undefined
        /\ invokedRemove[c][id] = 1
        /\ never >= callbackCounter[c]
        /\ disconnectionCallbacks[c][never] = Undefined

C5_TemporaryUntil ==
    \A k \in 1..Len(temps) :
        LET t == temps[k] IN
        /\ t.resolved <=> t.untilTrue
        /\ t.resolveCalls > 0 <=> t.untilTrue
        /\ HasListener(listeners, t.name, WrapperFn(k)) <=> ~t.untilTrue

\* `until` returned true and the listener is gone
C5_Witness ==
    \E k \in 1..Len(temps) :
        temps[k].resolved /\ ~HasListener(listeners, temps[k].name, WrapperFn(k))

\* the breakpoint of a width, as the specification states it
Breakpoint(w) ==
    IF w < 1024 THEN "mobile" ELSE IF w < 1280 THEN "tablet" ELSE "desktop"

\* the three change listeners of registration k are attached
Attached(k) ==
    \A size \in FormFactors : k \in mqlListeners[formFactorListeners[k].owner][size]

\* C6: at every viewport width exactly one of the three media queries
\* matches: mobile below 1024, tablet from 1024 to 1279, desktop from 1280.
C6_BreakpointSelection ==
    /\ Cardinality({size \in FormFactors : Matches(size, width)}) = 1
    /\ Matches(Breakpoint(width), width)
    /\ MobileMatches(width) <=> width < 1024
    /\ TabletMatches(width) <=> (1024 <= width /\ width < 1280)
    /\ DesktopMatches(width) <=> width >= 1280

\* the width is on a boundary and a listener was told its breakpoint
C6_Witness ==
    /\ width = 1280
    /\ \E k \in 1..Len(formFactorListeners) : formFactorListeners[k].last = "desktop"

\* C7: addFormFactorListener calls cb exactly once, with the breakpoint of the
\* viewport width at the time of the call, and calls no other callback.
C7_InitialCall ==
    [][\A c \in Comps :
          AddFormFactorListener(c) =>
              LET k == Len(formFactorListeners') IN
              /\ formFactorListeners'[k].calls = <<Breakpoint(width)>>
              /\ \A j \in 1..(k - 1) : formFactorListeners'[j].calls = <<>>]_vars

\* registered at width 1280: called once with desktop
C7_Witness ==
    /\ width = MinDesktop
    /\ \E k \in 1..Len(formFactorListeners) :
           /\ formFactorListeners[k].initial = <<"desktop">>
           /\ formFactorListeners[k].calls = <<"desktop">>

\* C8: while the three change listeners of a registration are attached, a
\* resize that changes the breakpoint calls cb exactly once with the new
\* breakpoint, a resize within the breakpoint calls it zero times, and the
\* last value passed to cb is the breakpoint of the current width.
C8_CallPerCrossing ==
    /\ [](\A k \in 1..Len(formFactorListeners) :
             Attached(k) => formFactorListeners[k].last = Breakpoint(width))
    /\ [][\A w \in Widths :
             Resize(w) =>
                 \A k \in 1..Len(formFactorListeners) :
                     Attached(k) =>
                         formFactorListeners'[k].calls =
                             IF Breakpoint(w) # Breakpoint(width)
                             THEN <<Breakpoint(w)>>
                             ELSE <<>>]_vars

\* a listener registered on a narrow viewport was called for a wide one
C8_Witness ==
    \E k \in 1..Len(formFactorListeners) :
        /\ Attached(k)
        /\ formFactorListeners[k].initial = <<"mobile">>
        /\ formFactorListeners[k].calls = <<"desktop">>
        /\ width = MinDesktop

\* escape, in the revision that runs: the DOM's text serializer in revision 1,
\* he.encode afterwards
Escape(v) == IF revision = 1 THEN TextAsHtml(v) ELSE Encode(v)

\* an interpolated value as the specification processes it
Processed(v, escapeHtml) == IF escapeHtml THEN Sanitize(Escape(v)) ELSE Sanitize(v)

\* L0 + f(V0) + L1 + ... + f(Vn-1) + Ln
RECURSIVE Interleaved(_, _, _)
Interleaved(strings, expressions, escapeHtml) ==
    IF expressions = <<>> THEN Head(strings)
    ELSE Head(strings) \o Processed(Head(expressions), escapeHtml)
             \o Interleaved(Tail(strings), Tail(expressions), escapeHtml)

\* C9: a template function passes the string it assembled to render as the
\* content and containerElement as the selector, so that the string becomes
\* the content of the selected element, in every revision.
C9_TemplateRendersAssembled ==
    tpl.calls > 0 =>
        /\ ~tpl.threw
        /\ tpl.rendered
        /\ tpl.content = tpl.assembled
        /\ tpl.selector = tpl.container
        /\ tpl.container = <<>> => dom.content = tpl.assembled
        /\ (tpl.container = <<"#x">> /\ HasContainer(dom.content)) => dom.x = tpl.assembled

\* C10: the string a template function assembles is the literal fragments,
\* unmodified and in order, with every interpolated value between them in
\* its processed form: escaped then sanitized in the escaping variant,
\* sanitized in the other.
C10_AssembledString ==
    (tpl.calls > 0 /\ ~tpl.threw) =>
        tpl.assembled = Interleaved(tpl.strings, tpl.expressions, tpl.escapeHtml)

\* C11: the string a template function passes to render is a fixed point of
\* the sanitizer: sanitizing the final assembled string again yields the same
\* string, for every literal skeleton and every list of interpolated values.
C11_SanitizerFixedPoint ==
    (tpl.calls > 0 /\ tpl.rendered) => Sanitize(tpl.content) = tpl.content

\* C12: fireGlobalEvent(name, data) calls every listener attached to the
\* window under `name`, whichever component registered it, exactly once with
\* the payload data, in the order the listeners were registered, and calls
\* no listener registered under another name.
C12_FireDelivers ==
    [][\A name \in AllNames, d \in Payloads :
          FireGlobalEvent(name, d) =>
              LET attached == {i \in 1..Len(listeners) : listeners[i].name = name}
                  At(i) == {j \in 1..Len(delivered') :
                               /\ delivered'[j].name = name
                               /\ delivered'[j].fn = listeners[i].fn}
              IN
              /\ \A i \in attached :
                     /\ Cardinality(At(i)) = 1
                     /\ \A j \in At(i) : delivered'[j].detail = d
              /\ \A i1, i2 \in attached :
                     i1 < i2 => \A j1 \in At(i1), j2 \in At(i2) : j1 < j2
              /\ \A j \in 1..Len(delivered') : \E i \in attached : j \in At(i)]_vars

\* an event reached the listener of its name, registered second, and not the
\* listener registered first under the other name
C12_Witness ==
    /\ Len(delivered) = 1
    /\ Len(listeners) = 2
    /\ listeners[1].name # delivered[1].name
    /\ listeners[2].name = delivered[1].name
    /\ listeners[2].fn = delivered[1].fn
    /\ delivered[1].detail = 1

\* C13: a handle whose teardown was invoked, by removeGlobalEventListener or
\* by disconnectedCallback, is invalidated: an entry of disconnectionCallbacks
\* that still holds a teardown function has never had it invoked.
C13_InvokedIsInvalidated ==
    \A c \in Comps, id \in Ids :
        (invokedRemove[c][id] > 0 \/ invokedDisconnect[c][id] > 0) => ~Outstanding(c, id)

\* a handle of addGlobalEventListener that was neither removed nor torn down
OutstandingHandle(c, id) ==
    /\ disconnectionCallbacks[c][id].kind = "window"
    /\ invokedRemove[c][id] = 0
    /\ invokedDisconnect[c][id] = 0

\* C17: while a handle of addGlobalEventListener is outstanding its handler
\* is attached to the window and is called for every fired event of its
\* name; removing or tearing down another handle, of any component and also
\* one with the same handler and event name, does not detach it.
C17_OutstandingStaysAttached ==
    /\ [](\A c \in Comps, id \in Ids :
             OutstandingHandle(c, id) =>
                 HasListener(listeners, disconnectionCallbacks[c][id].name,
                             disconnectionCallbacks[c][id].fn))
    /\ [][\A name \in Names, d \in Payloads :
             FireGlobalEvent(name, d) =>
                 \A c \in Comps, id \in Ids :
                     (OutstandingHandle(c, id) /\ disconnectionCallbacks[c][id].name = name) =>
                         \E j \in 1..Len(delivered') :
                             /\ delivered'[j].fn = disconnectionCallbacks[c][id].fn
                             /\ delivered'[j].detail = d]_vars

\* none of the three change listeners of registration k is attached
Detached(k) ==
    \A size \in FormFactors : k \notin mqlListeners[formFactorListeners[k].owner][size]

C15_RenderFrame ==
    [][\A content \in Contents, selector \in Selectors :
          RenderCall(content, selector) =>
              /\ ~renderError'
              /\ dom'.style = dom.style
              /\ IF selector = <<>>
                 THEN /\ dom'.content = content
                      /\ dom'.x = <<>>
                 ELSE IF selector = <<"#x">> /\ HasContainer(dom.content)
                 THEN /\ dom'.x = content
                      /\ dom'.content = dom.content
                 ELSE dom' = dom]_vars

\* a fragment was rendered into the first of two elements #x
C15_Witness ==
    /\ dom.content = <<Container, Container>>
    /\ dom.x = <<"<b></b>">>
    /\ ~renderError

\* C16: in the escaping variant of a template function every interpolated
\* value is escaped first and sanitized second: the sanitizer is given the
\* escaped value and the sanitizer's result is what is put into the output,
\* in every revision.
C16_EscapeThenSanitize ==
    (tpl.calls > 0 /\ ~tpl.threw /\ tpl.escapeHtml) =>
        /\ Len(tpl.sanitized) = Len(tpl.expressions)
        /\ Len(tpl.placed) = Len(tpl.expressions)
        /\ \A i \in 1..Len(tpl.expressions) :
               /\ tpl.sanitized[i] = Escape(tpl.expressions[i])
               /\ tpl.placed[i] = Sanitize(tpl.sanitized[i])

\* C18: the handler of a temporary listener is not invoked for an event
\* fired after an event for which `until` returned true, also when events
\* are fired back-to-back while the wrapper of an earlier event still awaits
\* the handler; and `until` is evaluated for an event only after the
\* handler's processing of that event has completed.
C18_NoCallAfterUntil ==
    [][/\ \A i \in 1..Len(pending), ok \in BOOLEAN :
             (ResumeWrapper(i, ok) /\ ok /\ Until(pending[i].detail)) =>
                 ~\E j \in (i + 1)..Len(pending) : pending[j].tmp = pending[i].tmp
       /\ \A name \in Names, d \in Payloads :
             FireGlobalEvent(name, d) =>
                 /\ temps' = temps
                 /\ \A j \in 1..Len(delivered') :
                        delivered'[j].fn.kind = "wrapper" =>
                            ~temps[delivered'[j].fn.id].untilTrue]_vars

\* C19: within a component identifiers are never reused: every identifier
\* issued by addGlobalEventListener or addFormFactorListener differs from
\* those issued before, callbackCounter is greater than every key present in
\* disconnectionCallbacks and equals the number of handles issued so far.
C19_IdsNeverReused ==
    \A c \in Comps :
        /\ \A i, j \in 1..Len(issued[c]) : i # j => issued[c][i] # issued[c][j]
        /\ \A id \in Keys(c) : id < callbackCounter[c]
        /\ callbackCounter[c] = Len(issued[c])

\* C19, amended: identifiers are never reused, callbackCounter equals the
\* number of handles issued and is greater than every issued identifier and
\* every key that holds a teardown function; a key that is not below
\* callbackCounter holds undefined.
C19_IssuedBelowCounter ==
    \A c \in Comps :
        /\ \A i, j \in 1..Len(issued[c]) : i # j => issued[c][i] # issued[c][j]
        /\ \A i \in 1..Len(issued[c]) : issued[c][i] < callbackCounter[c]
        /\ callbackCounter[c] = Len(issued[c])
        /\ \A id \in Keys(c) :
               id >= callbackCounter[c] => disconnectionCallbacks[c][id] = Undefined
        /\ \A id \in Ids : Outstanding(c, id) => id < callbackCounter[c]

\* a component issued the ids 0..3 through both functions, id 0 was removed,
\* and the id to come was removed before it was issued
C19_Witness ==
    \E c \in Comps :
        /\ issued[c] = <<0, 1, 2, 3>>
        /\ disconnectionCallbacks[c][0] = Undefined
        /\ disconnectionCallbacks[c][3].kind = "mql"
        /\ disconnectionCallbacks[c][4] = Undefined

====
